---- MODULE Spec2Model ----
(***************************************************************************)
(* Model of the HTTP request engine of backlog-ts (src/src/request.ts) and *)
(* of the configuration types and console logger of config.ts              *)
(* (src/unnamed/part_004).  One logical call (request or download) is one  *)
(* sequential control flow whose suspension points are the network call    *)
(* and the backoff sleep; the transport's answer to every attempt and the  *)
(* draw of Math.random() are chosen by the environment.                    *)
(***************************************************************************)
EXTENDS Integers, Sequences, FiniteSets, TLC

VARIABLES
  config,         \* the BacklogConfig the call was given (never assigned again)
  call,           \* the call's arguments: op, path, options
  pc,             \* "idle", "fetching", "sleeping", "dl_fetching", "returned", "raised"
  url,            \* const url of request / download
  headers,        \* const headers of request / download
  retryConfig,    \* const retryConfig of request (effective policy)
  requestOptions, \* const requestOptions of request
  attempt,        \* let attempt of request
  lastError,      \* let lastError of request
  fetches,        \* what the transport has seen: one record per fetch(), with its answer
  sleeps,         \* the delays handed to sleep(), in order
  logs,           \* the logger callbacks invoked, in order, with their arguments
  outcome,        \* what the call's promise settled to
  timers,         \* the setTimeout timers still set, each named by its attempt
  aborted,        \* the AbortControllers whose abort() has been called
  focus,          \* the call the variables above belong to: "a" or "b"
  suspended       \* the variables of the other call in flight, Undefined when none

vars == <<config, call, pc, url, headers, retryConfig, requestOptions, attempt,
          lastError, fetches, sleeps, logs, outcome, timers, aborted, focus, suspended>>

(***************************************************************************)
(* JavaScript values.  An optional property is a slot: not an own property *)
(* (Absent), an own property holding undefined (Undefined), or a value.    *)
(***************************************************************************)
Absent == [s |-> "absent"]
Undefined == [s |-> "undefined"]
NaN == [s |-> "nan"]
\* A property holding null.
Null == [s |-> "null"]
Val(v) == [s |-> "val", v |-> v]

IsVal(x) == x.s = "val"

\* Truthiness of a slot holding a string: undefined and "" are falsy.
TruthyStr(x) == IsVal(x) /\ x.v # ""
\* Truthiness of a slot holding a number: undefined, NaN and 0 are falsy.
TruthyNum(x) == IsVal(x) /\ x.v # 0
\* Truthiness of a slot holding a boolean.
TruthyBool(x) == IsVal(x) /\ x.v

\* A faulty variant of JsLess: the comparison lets one attempt too many through.
JsLessOrEqual(a, b) == IsVal(b) /\ a <= b.v

\* A faulty variant of JsLess: the first attempt is let through whatever the
\* bound, as a loop that tests its condition at the end would.
JsLessAfterFirst(a, b) == IsVal(b) /\ (a < b.v \/ a = 0)

\* a < b for a number a and a slot b: a comparison with undefined or NaN is false.
JsLess(a, b) == IsVal(b) /\ a < b.v

\* String(x) / template-literal conversion of a numeric slot.
NumToString(x) ==
  IF IsVal(x) THEN ToString(x.v)
  ELSE IF x.s = "nan" THEN "NaN" ELSE "undefined"

(***************************************************************************)
(* Strings.                                                                *)
(***************************************************************************)
\* A faulty variant of StartsWith: the prefix may begin anywhere in the string.
StartsWithAnywhere(str, prefix) ==
  \E i \in 1..(Len(str) - Len(prefix) + 1) : SubSeq(str, i, i + Len(prefix) - 1) = prefix

\* String.prototype.startsWith
StartsWith(str, prefix) ==
  Len(str) >= Len(prefix) /\ SubSeq(str, 1, Len(prefix)) = prefix

\* String.prototype.endsWith
EndsWith(str, suffix) ==
  Len(str) >= Len(suffix) /\ SubSeq(str, Len(str) - Len(suffix) + 1, Len(str)) = suffix

\* The positions at which sub occurs in str.
Occurrences(str, sub) ==
  {i \in 1..(Len(str) - Len(sub) + 1) : SubSeq(str, i, i + Len(sub) - 1) = sub}

\* String.prototype.includes
Includes(str, sub) == Occurrences(str, sub) # {}

Min(S) == CHOOSE x \in S : \A y \in S : x <= y

\* The tail of str from position i on.
From(str, i) == SubSeq(str, i, Len(str))

\* Array.prototype.includes
ArrayIncludes(arr, x) == \E i \in 1..Len(arr) : arr[i] = x

(***************************************************************************)
(* DEFAULT_RETRY_CONFIG and the merge `{...DEFAULT_RETRY_CONFIG,           *)
(* ...config.retry}`: object spread copies every own property of           *)
(* config.retry, one holding undefined included.                           *)
(***************************************************************************)
DefaultMaxAttempts == 3
DefaultBaseDelay == 1000
DefaultMaxDelay == 30000

DEFAULT_RETRY_CONFIG ==
  [maxAttempts |-> Val(DefaultMaxAttempts),
   baseDelay |-> Val(DefaultBaseDelay),
   maxDelay |-> Val(DefaultMaxDelay),
   retryableStatusCodes |-> Val(<<429, 500, 502, 503, 504>>),
   exponentialBackoff |-> Val(TRUE)]

RetryFields == {"maxAttempts", "baseDelay", "maxDelay", "retryableStatusCodes",
                "exponentialBackoff"}

\* {...a, ...b} for a total a and a partial b whose missing properties are Absent.
Spread(a, b) == [f \in DOMAIN a |-> IF b[f] = Absent THEN a[f] ELSE b[f]]

\* The effective policy: config.retry may itself be undefined (spreads nothing).
MergeRetryConfig(retry) ==
  IF retry = Undefined THEN DEFAULT_RETRY_CONFIG
  ELSE Spread(DEFAULT_RETRY_CONFIG, retry)

(***************************************************************************)
(* Query-parameter values (options.params is a record of unknown values).  *)
(***************************************************************************)
PStr(v) == [t |-> "string", str |-> v]
PNum(v) == [t |-> "number", num |-> v]
PBool(v) == [t |-> "boolean", bool |-> v]
PArr(v) == [t |-> "array", items |-> v]
PNull == [t |-> "null"]
PUndefined == [t |-> "undefined"]

\* String(value) for a scalar.
StringOf(v) ==
  CASE v.t = "string" -> v.str
    [] v.t = "number" -> ToString(v.num)
    [] v.t = "boolean" -> (IF v.bool THEN "true" ELSE "false")
    [] v.t = "null" -> "null"
    [] v.t = "undefined" -> "undefined"

\* URLSearchParams.toString(): application/x-www-form-urlencoded serialisation.
\* Letters, digits and * - . _ stay; a space becomes +; the other characters
\* of the model's alphabet are percent-encoded.
FormEncodeChar(c) ==
  CASE c = " " -> "+"
    [] c = "[" -> "%5B"
    [] c = "]" -> "%5D"
    [] c = "&" -> "%26"
    [] c = "=" -> "%3D"
    [] c = "%" -> "%25"
    [] c = "/" -> "%2F"
    [] c = ":" -> "%3A"
    [] c = "?" -> "%3F"
    [] c = "'" -> "%27"
    [] OTHER -> c

RECURSIVE FormEncode(_)
FormEncode(str) ==
  IF Len(str) = 0 THEN ""
  ELSE FormEncodeChar(SubSeq(str, 1, 1)) \o FormEncode(From(str, 2))

\* A faulty variant of EntryPairs: a null or undefined value is appended like a scalar.
EntryPairsKeepNull(key, value) ==
  IF value.t = "array"
    THEN [i \in 1..Len(value.items) |-> <<key \o "[]", StringOf(value.items[i])>>]
    ELSE << <<key, StringOf(value)>> >>

\* The (name, value) list that the loop of buildQueryString appends for one entry.
EntryPairs(key, value) ==
  IF value.t \in {"undefined", "null"} THEN <<>>
  ELSE IF value.t = "array"
    THEN [i \in 1..Len(value.items) |-> <<key \o "[]", StringOf(value.items[i])>>]
    ELSE << <<key, StringOf(value)>> >>

RECURSIVE AppendAll(_)
AppendAll(params) ==
  IF Len(params) = 0 THEN <<>>
  ELSE EntryPairs(params[1].key, params[1].value) \o AppendAll(Tail(params))

RECURSIVE SerializePairs(_)
SerializePairs(pairs) ==
  IF Len(pairs) = 0 THEN ""
  ELSE FormEncode(pairs[1][1]) \o "=" \o FormEncode(pairs[1][2])
       \o (IF Len(pairs) > 1 THEN "&" ELSE "") \o SerializePairs(Tail(pairs))

buildQueryString(params) == SerializePairs(AppendAll(params))

\* A faulty variant of SetProperty: a property the caller's params already hold
\* is not overwritten.
SetPropertyIfMissing(params, key, value) ==
  IF \E i \in 1..Len(params) : params[i].key = key
    THEN params
    ELSE Append(params, [key |-> key, value |-> value])

\* queryParams.apiKey = v on a copy of params: an existing apiKey property keeps
\* its place in the property order, a new one goes last.
SetProperty(params, key, value) ==
  IF \E i \in 1..Len(params) : params[i].key = key
    THEN [i \in 1..Len(params) |->
            IF params[i].key = key THEN [key |-> key, value |-> value] ELSE params[i]]
    ELSE Append(params, [key |-> key, value |-> value])

buildUrl(cfg, path, params) ==
  LET protocol == IF StartsWith(cfg.host, "localhost:") THEN "http" ELSE "https"
      baseUrl == protocol \o "://" \o cfg.host \o "/api/v2/" \o path
      queryParams == IF TruthyStr(cfg.apiKey)
                       THEN SetProperty(params, "apiKey", PStr(cfg.apiKey.v))
                       ELSE params
      queryString == buildQueryString(queryParams)
  IN IF queryString # "" THEN baseUrl \o "?" \o queryString ELSE baseUrl

\* A faulty variant of buildHeaders: the bearer header is left out when an API
\* key is configured.
buildHeadersKeyFirst(cfg) ==
  [ContentType |-> "application/json",
   Authorization |-> IF TruthyStr(cfg.accessToken) /\ ~TruthyStr(cfg.apiKey)
                       THEN Val("Bearer " \o cfg.accessToken.v)
                       ELSE Absent]

\* The header map, as a record of slots.
buildHeaders(cfg) ==
  [ContentType |-> "application/json",
   Authorization |-> IF TruthyStr(cfg.accessToken)
                       THEN Val("Bearer " \o cfg.accessToken.v)
                       ELSE Absent]

(***************************************************************************)
(* consoleLogger: every callback prints                                    *)
(* url.replace(/apiKey=([^&]+)/, "apiKey=****"), which rewrites the first  *)
(* match only.                                                             *)
(***************************************************************************)
\* The length of the longest prefix of str that holds no "&".
RECURSIVE RunNotAmp(_)
RunNotAmp(str) ==
  IF Len(str) = 0 \/ SubSeq(str, 1, 1) = "&" THEN 0 ELSE 1 + RunNotAmp(From(str, 2))

\* Where /apiKey=([^&]+)/ can match: "apiKey=" followed by at least one non-& character.
ApiKeyMatches(str) ==
  {i \in Occurrences(str, "apiKey=") : RunNotAmp(From(str, i + 7)) >= 1}

sanitizeUrl(str) ==
  IF ApiKeyMatches(str) = {} THEN str
  ELSE LET i == Min(ApiKeyMatches(str))
           n == RunNotAmp(From(str, i + 7))
       IN SubSeq(str, 1, i - 1) \o "apiKey=****" \o From(str, i + 7 + n)

(***************************************************************************)
(* Errors and the logger.                                                  *)
(***************************************************************************)
\* new Error(message) and its subclasses; status and duration are attached later.
NewError(name, message) ==
  [name |-> name, message |-> message, status |-> Undefined, duration |-> Undefined]

\* logger?.request / logger?.response / logger?.error
HasCallback(logger, cb) == IsVal(logger) /\ logger.v[cb]

\* A faulty variant of LogEvent: every event goes to the error callback.
LogEventThroughError(type, method, u, payload) ==
  [type |-> "error", method |-> method, url |-> u, payload |-> payload]

LogEvent(type, method, u, payload) ==
  [type |-> type, method |-> method, url |-> u, payload |-> payload]

\* errorData.errors?.[0]?.message
NestedMessage(errorData) ==
  IF IsVal(errorData.errors) /\ Len(errorData.errors.v) >= 1
    THEN (IF IsVal(errorData.errors.v[1].message)
            THEN errorData.errors.v[1].message ELSE Undefined)
    ELSE Undefined

\* errorData.errors?.[0]?.message || errorData.message || "Unknown error"
ResolveMessage(errorData) ==
  IF TruthyStr(NestedMessage(errorData)) THEN NestedMessage(errorData).v
  ELSE IF TruthyStr(errorData.message) THEN errorData.message.v
  ELSE "Unknown error"

\* The body synthesized when the error body is not readable as JSON.
SynthesizedErrorData(response) ==
  [message |-> Val("HTTP " \o ToString(response.status) \o ": " \o response.statusText),
   code |-> Val(response.status),
   errors |-> Absent]

\* response.ok
Ok(response) == response.status >= 200 /\ response.status <= 299

\* What `await response.json()` does, by the way the body read ends.
JsonRejection(body) ==
  IF body.kind = "aborted"
    THEN NewError("AbortError", "The signal has been aborted")
    ELSE NewError("SyntaxError", "Unexpected token in JSON")

\* The error data of a non-ok response: the inner try/catch swallows every
\* failure of response.json(), whatever its cause.
ErrorDataOf(response) ==
  IF response.body.kind = "json" THEN response.body.value
  ELSE SynthesizedErrorData(response)

(***************************************************************************)
(* executeRequest: one attempt, given the transport's answer r.  The       *)
(* result is what the promise settles to and the log events emitted.       *)
(***************************************************************************)
WithDuration(error, d) == [error EXCEPT !.duration = Val(d)]

\* A faulty variant of executeRequest: with an error callback configured the
\* error of a non-ok response is thrown before its status is attached.
executeRequestLoggedFirst(u, logger, method, r) ==
  IF r.kind = "reject"
    THEN [kind |-> "throw", error |-> WithDuration(r.error, r.elapsed), logs |-> <<>>]
  ELSE IF ~Ok(r)
    THEN LET errorData == ErrorDataOf(r)
             error == NewError("Error", ResolveMessage(errorData))
         IN IF HasCallback(logger, "error")
              THEN [kind |-> "throw",
                    error |-> WithDuration(error, r.elapsed),
                    logs |-> <<LogEvent("error", method, u,
                                        [k |-> "errorData", data |-> errorData])>>]
              ELSE [kind |-> "throw",
                    error |-> WithDuration([error EXCEPT !.status = Val(r.status)],
                                           r.elapsed),
                    logs |-> <<>>]
  ELSE IF r.body.kind # "json"
    THEN [kind |-> "throw",
          error |-> WithDuration(JsonRejection(r.body), r.elapsed),
          logs |-> <<>>]
  ELSE [kind |-> "return",
        data |-> r.body.value,
        logs |-> IF HasCallback(logger, "response")
                   THEN <<LogEvent("response", method, u,
                                   [k |-> "response", status |-> r.status,
                                    data |-> r.body.value])>>
                   ELSE <<>>]

executeRequest(u, logger, method, r) ==
  IF r.kind = "reject"
    THEN [kind |-> "throw", error |-> WithDuration(r.error, r.elapsed), logs |-> <<>>]
  ELSE IF ~Ok(r)
    THEN LET errorData == ErrorDataOf(r)
             error == [NewError("Error", ResolveMessage(errorData))
                         EXCEPT !.status = Val(r.status)]
         IN [kind |-> "throw",
             error |-> WithDuration(error, r.elapsed),
             logs |-> IF HasCallback(logger, "error")
                        THEN <<LogEvent("error", method, u,
                                        [k |-> "errorData", data |-> errorData])>>
                        ELSE <<>>]
  ELSE IF r.body.kind # "json"
    THEN [kind |-> "throw",
          error |-> WithDuration(JsonRejection(r.body), r.elapsed),
          logs |-> <<>>]
  ELSE [kind |-> "return",
        data |-> r.body.value,
        logs |-> IF HasCallback(logger, "response")
                   THEN <<LogEvent("response", method, u,
                                   [k |-> "response", status |-> r.status,
                                    data |-> r.body.value])>>
                   ELSE <<>>]

(***************************************************************************)
(* The retry decision and the backoff delay.                               *)
(***************************************************************************)
\* A faulty variant of isRetryableError: every failure that carries no status,
\* the timeout's abort aside, is taken for a network error.
isRetryableErrorUnlessAbort(error) ==
  error.name # "AbortError" /\ ~IsVal(error.status)

isRetryableError(error) ==
  error.name = "TypeError" /\ Includes(error.message, "fetch")

\* A faulty variant of isRetryableStatusCode: no status is ever retried.
isRetryableStatusCodeNever(statusCode, rc) == FALSE

\* A faulty variant of isRetryableStatusCode: the default set is consulted, not the effective one.
isRetryableStatusCodeDefault(statusCode, rc) ==
  ArrayIncludes(DEFAULT_RETRY_CONFIG.retryableStatusCodes.v, statusCode)

\* A faulty variant of isRetryableStatusCode: the caller's set is added to the
\* default set, not put in its place.
isRetryableStatusCodeMerged(statusCode, rc) ==
  \/ ArrayIncludes(rc.retryableStatusCodes.v, statusCode)
  \/ ArrayIncludes(DEFAULT_RETRY_CONFIG.retryableStatusCodes.v, statusCode)

\* retryConfig.retryableStatusCodes.includes(statusCode), for a defined array.
isRetryableStatusCode(statusCode, rc) ==
  ArrayIncludes(rc.retryableStatusCodes.v, statusCode)

\* Evaluating line 263-265 reads .includes of retryableStatusCodes: a TypeError
\* when the effective policy holds undefined there.
ShouldRetryThrows(att, error, rc) ==
  /\ JsLess(att, rc.maxAttempts)
  /\ ~isRetryableError(error)
  /\ TruthyNum(error.status)
  /\ ~IsVal(rc.retryableStatusCodes)

\* A faulty variant of shouldRetry: the attempts left are not looked at.
shouldRetryAnyAttempt(att, error, rc) ==
  \/ isRetryableError(error)
  \/ /\ TruthyNum(error.status)
     /\ ArrayIncludes(rc.retryableStatusCodes.v, error.status.v)

\* A faulty variant of shouldRetry: the last attempt is still counted as having
\* one to follow.
shouldRetryUpToLast(att, error, rc) ==
  /\ JsLessOrEqual(att, rc.maxAttempts)
  /\ \/ isRetryableError(error)
     \/ /\ TruthyNum(error.status)
        /\ ArrayIncludes(rc.retryableStatusCodes.v, error.status.v)

shouldRetry(att, error, rc) ==
  /\ JsLess(att, rc.maxAttempts)
  /\ \/ isRetryableError(error)
     \/ /\ TruthyNum(error.status)
        /\ isRetryableStatusCode(error.status.v, rc)

\* A faulty variant of Pow2: the delay does not grow with the attempt.
Pow2Flat(n) == 1

RECURSIVE Pow2(_)
Pow2(n) == IF n <= 0 THEN 1 ELSE 2 * Pow2(n - 1)

\* A faulty variant of MathMin: the cap is not applied.
MathMinUncapped(a, b) == Val(a)

\* Math.min(a, b) on a number a and a numeric slot b.
MathMin(a, b) == IF IsVal(b) THEN Val(IF a <= b.v THEN a ELSE b.v) ELSE NaN

\* random10 is Math.random() in tenths: jitter = random * 0.1 * exponentialDelay.
calculateRetryDelay(att, rc, random10) ==
  IF ~TruthyBool(rc.exponentialBackoff) THEN rc.baseDelay
  ELSE IF ~IsVal(rc.baseDelay) THEN NaN
  ELSE LET exponentialDelay == rc.baseDelay.v * Pow2(att - 1)
           jitter == (random10 * exponentialDelay) \div 100
           delay == exponentialDelay + jitter
       IN MathMin(delay, rc.maxDelay)

\* The retry notice handed to logger.error before the sleep.
RetryNotice(att, rc, delay, error) ==
  "Attempt " \o ToString(att) \o "/" \o NumToString(rc.maxAttempts)
    \o " failed, retrying in " \o NumToString(delay) \o "ms: "
    \o (IF error.message # "" THEN error.message ELSE "Unknown error")

(***************************************************************************)
(* download: the file name carried by Content-Disposition.                 *)
(***************************************************************************)
Quote == "\""

\* The capture of ("?)(.+?)("?)$ on a non-empty rest: the optional opening quote
\* is taken when something is left after it, the lazy group stops before a
\* closing quote that ends the string.
LazyCapture(rest) ==
  LET r1 == IF StartsWith(rest, Quote) /\ Len(rest) >= 2 THEN From(rest, 2) ELSE rest
  IN IF Len(r1) >= 2 /\ EndsWith(r1, Quote) THEN SubSeq(r1, 1, Len(r1) - 1) ELSE r1

\* contentDisposition.match(/filename="?(.+?)"?$/): the capture of the leftmost match.
MatchFilename(cd) ==
  LET at == {i \in Occurrences(cd, "filename=") : Len(From(cd, i + 9)) >= 1}
  IN IF at = {} THEN Undefined ELSE Val(LazyCapture(From(cd, Min(at) + 9)))

\* contentDisposition.match(/filename\*=UTF-8''(.+)$/)
MatchFilenameStar(cd) ==
  LET at == {i \in Occurrences(cd, "filename*=UTF-8''") : Len(From(cd, i + 17)) >= 1}
  IN IF at = {} THEN Undefined ELSE Val(From(cd, Min(at) + 17))

\* decodeURIComponent on the escapes of the model's alphabet; a % that starts no
\* escape makes it throw URIError.
PercentDecodeChar(esc) ==
  CASE esc = "%20" -> Val(" ")
    [] esc = "%25" -> Val("%")
    [] esc = "%2F" -> Val("/")
    [] esc = "%27" -> Val("'")
    [] OTHER -> Undefined

RECURSIVE decodeURIComponent(_)
decodeURIComponent(str) ==
  IF Len(str) = 0 THEN Val("")
  ELSE IF SubSeq(str, 1, 1) # "%"
    THEN LET rest == decodeURIComponent(From(str, 2))
         IN IF IsVal(rest) THEN Val(SubSeq(str, 1, 1) \o rest.v) ELSE rest
  ELSE IF Len(str) < 3 \/ ~IsVal(PercentDecodeChar(SubSeq(str, 1, 3)))
    THEN [s |-> "throws"]
  ELSE LET rest == decodeURIComponent(From(str, 4))
       IN IF IsVal(rest) THEN Val(PercentDecodeChar(SubSeq(str, 1, 3)).v \o rest.v)
          ELSE rest

\* let fileName of download: undefined, a string, or a URIError thrown.
FileNameOf(contentDisposition) ==
  IF ~TruthyStr(contentDisposition) THEN Undefined
  ELSE IF IsVal(MatchFilename(contentDisposition.v))
    THEN MatchFilename(contentDisposition.v)
  ELSE IF IsVal(MatchFilenameStar(contentDisposition.v))
    THEN decodeURIComponent(MatchFilenameStar(contentDisposition.v).v)
  ELSE Undefined

\* The body of download's try block and of its catch, given the transport's answer.
downloadSettle(u, logger, r) ==
  LET caught(error) ==
        IF HasCallback(logger, "error")
          THEN <<LogEvent("error", "GET", u, [k |-> "error", error |-> error])>>
          ELSE <<>>
  IN IF r.kind = "reject"
       THEN [kind |-> "throw", error |-> r.error, logs |-> caught(r.error)]
     ELSE IF ~Ok(r)
       THEN LET errorData == ErrorDataOf(r)
                error == NewError("Error", ResolveMessage(errorData))
            IN [kind |-> "throw",
                error |-> error,
                logs |-> (IF HasCallback(logger, "error")
                            THEN <<LogEvent("error", "GET", u,
                                            [k |-> "errorData", data |-> errorData])>>
                            ELSE <<>>) \o caught(error)]
     ELSE LET fileName == FileNameOf(r.contentDisposition)
          IN IF fileName.s = "throws"
               THEN LET error == NewError("URIError", "URI malformed")
                    IN [kind |-> "throw", error |-> error, logs |-> caught(error)]
               ELSE [kind |-> "return",
                     data |-> [body |-> r.body, fileName |-> fileName],
                     logs |-> IF HasCallback(logger, "response")
                                THEN <<LogEvent("response", "GET", u,
                                                [k |-> "response", status |-> r.status,
                                                 data |-> [fileName |-> fileName]])>>
                                ELSE <<>>]

(***************************************************************************)
(* The calls.  request: lines 203-237 run up to the first fetch; every     *)
(* answer of the transport runs the rest of executeRequest and the catch   *)
(* block up to the next suspension (return, throw, or sleep); the end of   *)
(* the sleep runs the loop head and the next fetch.                        *)
(***************************************************************************)
Pending == [kind |-> "pending"]

\* The fetch() call as the transport sees it.
FetchRecord(u, options) ==
  [url |-> u, method |-> options.method, headers |-> options.headers,
   body |-> options.body, signal |-> options.signal, answer |-> Pending]

\* JSON.stringify of a body object {name: ...}.
JSONStringify(body) == "{" \o Quote \o "name" \o Quote \o ":" \o Quote \o body.name \o Quote \o "}"

\* A faulty variant of BodyAttached: the method is not looked at.
BodyAttachedAnyMethod(options, method) == IsVal(options.body)

\* options.body && method !== "GET": a body object is truthy, null and undefined
\* are not.
BodyAttached(options, method) == IsVal(options.body) /\ method # "GET"

\* A faulty variant of AbortController: one controller serves every attempt.
AbortControllerShared(att) == 1

\* new AbortController() in attempt att: a controller of its own, named by the
\* attempt that creates it.  The timer set next to it bears the same name.
AbortController(att) == att

\* An attempt ended by the timeout's abort: before the response headers, or
\* while the body was being read.
TimedOut(a) ==
  \/ a.kind = "reject" /\ a.error.name = "AbortError"
  \/ a.kind = "response" /\ a.body.kind = "aborted"

\* The loop head `while (attempt < retryConfig.maxAttempts)` with the statements
\* up to the fetch, or the throw after the loop.
LoopHead(att, rc, options, last) ==
  IF JsLess(att, rc.maxAttempts)
    THEN /\ attempt' = att + 1
         /\ requestOptions' = IF TruthyNum(config.timeout)
                                THEN [options EXCEPT !.signal = Val(AbortController(att + 1))]
                                ELSE options
         /\ timers' = IF TruthyNum(config.timeout) THEN timers \cup {att + 1} ELSE timers
         /\ fetches' = Append(fetches, FetchRecord(url', requestOptions'))
         /\ pc' = "fetching"
         /\ outcome' = outcome
    ELSE /\ attempt' = att
         /\ requestOptions' = options
         /\ timers' = timers
         /\ fetches' = fetches
         /\ pc' = "raised"
         /\ outcome' = [kind |-> "error",
                        error |-> IF last # Undefined THEN last
                                  ELSE NewError("Error",
                                                "Request failed after all retry attempts")]

Request ==
  /\ pc = "idle"
  /\ call.op = "request"
  /\ LET method == IF TruthyStr(call.options.method) THEN call.options.method.v ELSE "GET"
         logger == config.logger
         options == [method |-> method,
                     headers |-> buildHeaders(config),
                     body |-> IF BodyAttached(call.options, method)
                                THEN Val(JSONStringify(call.options.body.v))
                                ELSE Absent,
                     signal |-> Absent]
     IN /\ url' = buildUrl(config, call.path, call.options.params)
        /\ headers' = buildHeaders(config)
        /\ retryConfig' = MergeRetryConfig(config.retry)
        /\ logs' = IF HasCallback(logger, "request")
                     THEN Append(logs, LogEvent("request", method, url',
                                   [k |-> "request", headers |-> headers',
                                    body |-> IF BodyAttached(call.options, method)
                                               THEN call.options.body ELSE Undefined]))
                     ELSE logs
        /\ lastError' = Undefined
        /\ LoopHead(0, retryConfig', options, Undefined)
  /\ UNCHANGED <<focus, suspended, config, call, sleeps, aborted>>

\* The transport answers the pending fetch of request with r; random10 is the
\* draw of Math.random() should a delay be computed.  The fetch ends by abort
\* exactly when the controller behind its signal has been aborted; either way
\* the attempt's timer is cleared (lines 248 and 251).
FetchSettles(r, random10) ==
  /\ pc = "fetching"
  /\ TimedOut(r) <=> /\ IsVal(requestOptions.signal)
                     /\ requestOptions.signal.v \in aborted
  /\ timers' = timers \ {attempt}
  /\ fetches' = [fetches EXCEPT ![Len(fetches)].answer = r]
  /\ LET res == executeRequest(url, config.logger, requestOptions.method, r)
         method == requestOptions.method
     IN IF res.kind = "return"
          THEN /\ pc' = "returned"
               /\ outcome' = [kind |-> "value", data |-> res.data]
               /\ logs' = logs \o res.logs
               /\ UNCHANGED <<lastError, sleeps>>
        ELSE IF ShouldRetryThrows(attempt, res.error, retryConfig)
          THEN /\ pc' = "raised"
               /\ lastError' = res.error
               /\ outcome' = [kind |-> "error",
                              error |-> NewError("TypeError",
                                 "Cannot read properties of undefined (reading 'includes')")]
               /\ logs' = logs \o res.logs
               /\ UNCHANGED sleeps
        ELSE IF ~shouldRetry(attempt, res.error, retryConfig)
          THEN /\ pc' = "raised"
               /\ lastError' = res.error
               /\ outcome' = [kind |-> "error", error |-> lastError']
               /\ logs' = logs \o res.logs \o
                            (IF HasCallback(config.logger, "error")
                               THEN <<LogEvent("error", method, url,
                                               [k |-> "error", error |-> res.error])>>
                               ELSE <<>>)
               /\ UNCHANGED sleeps
        ELSE LET delay == calculateRetryDelay(attempt, retryConfig, random10)
             IN /\ pc' = "sleeping"
                /\ lastError' = res.error
                /\ logs' = logs \o res.logs \o
                             (IF HasCallback(config.logger, "error")
                                THEN <<LogEvent("error", method, url,
                                         [k |-> "notice",
                                          text |-> RetryNotice(attempt, retryConfig,
                                                               delay, res.error)])>>
                                ELSE <<>>)
                /\ sleeps' = Append(sleeps, delay)
                /\ UNCHANGED outcome
  /\ UNCHANGED <<focus, suspended, config, call, url, headers, retryConfig, requestOptions, attempt,
                 aborted>>

\* The timer of attempt k runs out: its callback aborts the controller created
\* with it (line 243).
TimerFires ==
  \E k \in timers :
    /\ timers' = timers \ {k}
    /\ aborted' = aborted \cup {AbortController(k)}
    /\ UNCHANGED <<focus, suspended, config, call, pc, url, headers, retryConfig, requestOptions, attempt,
                   lastError, fetches, sleeps, logs, outcome>>

\* The backoff sleep ends: back to the loop head.
Wake ==
  /\ pc = "sleeping"
  /\ UNCHANGED url
  /\ LoopHead(attempt, retryConfig, requestOptions, lastError)
  /\ UNCHANGED <<focus, suspended, config, call, headers, retryConfig, lastError, sleeps, logs, aborted>>

\* download: lines 310-327, up to the fetch (no signal, whatever config.timeout is).
Download ==
  /\ pc = "idle"
  /\ call.op = "download"
  /\ url' = buildUrl(config, call.path, <<>>)
  /\ headers' = buildHeaders(config)
  /\ logs' = IF HasCallback(config.logger, "request")
               THEN Append(logs, LogEvent("request", "GET", url',
                             [k |-> "request", headers |-> headers', body |-> Undefined]))
               ELSE logs
  /\ fetches' = Append(fetches,
                       FetchRecord(url', [method |-> "GET", headers |-> headers',
                                          body |-> Absent, signal |-> Absent]))
  /\ pc' = "dl_fetching"
  /\ UNCHANGED <<focus, suspended, config, call, retryConfig, requestOptions, attempt, lastError,
                 sleeps, outcome, timers, aborted>>

\* A faulty variant of DownloadSettles: a failed download is tried once more.
DownloadSettlesRetrying(r) ==
  /\ pc = "dl_fetching"
  /\ r.kind = "reject" => r.error.name # "AbortError"
  /\ r.kind = "response" => r.body.kind # "aborted"
  /\ LET res == downloadSettle(url, config.logger, r)
         answered == [fetches EXCEPT ![Len(fetches)].answer = r]
     IN /\ logs' = logs \o res.logs
        /\ IF res.kind = "return"
             THEN /\ pc' = "returned"
                  /\ fetches' = answered
                  /\ outcome' = [kind |-> "value", data |-> res.data]
             ELSE IF Len(fetches) < 2
               THEN /\ pc' = "dl_fetching"
                    /\ fetches' = Append(answered, [fetches[1] EXCEPT !.answer = Pending])
                    /\ outcome' = outcome
               ELSE /\ pc' = "raised"
                    /\ fetches' = answered
                    /\ outcome' = [kind |-> "error", error |-> res.error]
  /\ UNCHANGED <<focus, suspended, config, call, url, headers, retryConfig, requestOptions, attempt,
                 lastError, sleeps, timers, aborted>>

\* The transport answers the fetch of download.
DownloadSettles(r) ==
  /\ pc = "dl_fetching"
  /\ r.kind = "reject" => r.error.name # "AbortError"
  /\ r.kind = "response" => r.body.kind # "aborted"
  /\ fetches' = [fetches EXCEPT ![Len(fetches)].answer = r]
  /\ LET res == downloadSettle(url, config.logger, r)
     IN /\ logs' = logs \o res.logs
        /\ IF res.kind = "return"
             THEN /\ pc' = "returned"
                  /\ outcome' = [kind |-> "value", data |-> res.data]
             ELSE /\ pc' = "raised"
                  /\ outcome' = [kind |-> "error", error |-> res.error]
  /\ UNCHANGED <<focus, suspended, config, call, url, headers, retryConfig, requestOptions, attempt,
                 lastError, sleeps, timers, aborted>>

(***************************************************************************)
(* Two calls in flight.  Each invocation of request or download has its    *)
(* own locals; the event loop runs one call up to its next await and may   *)
(* then continue the other.                                                *)
(***************************************************************************)
\* The locals of the call in focus, with its arguments and what it has done.
Frame ==
  [config |-> config, call |-> call, pc |-> pc, url |-> url, headers |-> headers,
   retryConfig |-> retryConfig, requestOptions |-> requestOptions, attempt |-> attempt,
   lastError |-> lastError, fetches |-> fetches, sleeps |-> sleeps, logs |-> logs,
   outcome |-> outcome, timers |-> timers, aborted |-> aborted]

\* A faulty variant of Resume: `attempt` is one counter of the module, which
\* the two calls share.
ResumeSharingAttempt(f) ==
  /\ config' = f.config /\ call' = f.call /\ pc' = f.pc /\ url' = f.url
  /\ headers' = f.headers /\ retryConfig' = f.retryConfig
  /\ requestOptions' = f.requestOptions /\ attempt' = attempt
  /\ lastError' = f.lastError /\ fetches' = f.fetches /\ sleeps' = f.sleeps
  /\ logs' = f.logs /\ outcome' = f.outcome /\ timers' = f.timers
  /\ aborted' = f.aborted

\* The call with locals f is continued.
Resume(f) ==
  /\ config' = f.config /\ call' = f.call /\ pc' = f.pc /\ url' = f.url
  /\ headers' = f.headers /\ retryConfig' = f.retryConfig
  /\ requestOptions' = f.requestOptions /\ attempt' = f.attempt
  /\ lastError' = f.lastError /\ fetches' = f.fetches /\ sleeps' = f.sleeps
  /\ logs' = f.logs /\ outcome' = f.outcome /\ timers' = f.timers
  /\ aborted' = f.aborted

\* The call in focus is at an await (or not started, or ended) and the event
\* loop turns to the other call.
Switch ==
  /\ suspended # Undefined
  /\ focus' = (IF focus = "a" THEN "b" ELSE "a")
  /\ suspended' = Frame
  /\ Resume(suspended)

(***************************************************************************)
(* Bounds of the model and the inputs the calls are checked on.            *)
(***************************************************************************)
\* The largest retry.maxAttempts a caller supplies.
MaxAttempts == 3
\* The time a transport answer takes, in ms.
Elapsed == 12
\* config.timeout, when set, in ms.
Timeout == 50
\* The caller's baseDelay and maxDelay, when supplied, in ms.
BaseDelay == 100
MaxDelay == 150

\* Math.random(), in tenths.
Randoms == {0, 9}

StatusText(status) ==
  CASE status = 200 -> "OK"
    [] status = 400 -> "Bad Request"
    [] status = 404 -> "Not Found"
    [] status = 429 -> "Too Many Requests"
    [] status = 503 -> "Service Unavailable"
    [] OTHER -> ""

\* fetch() rejecting: a connection-level failure as two runtimes word it, or the
\* abort of the attempt's signal.
ConnectionRefused == NewError("TypeError", "error sending request: connection refused")
FailedToFetch == NewError("TypeError", "Failed to fetch")
Aborted == NewError("AbortError", "The signal has been aborted")

\* An abort comes when the timeout has run; any other answer comes sooner.
Rejections == {[kind |-> "reject", error |-> e,
                elapsed |-> IF e = Aborted THEN Timeout ELSE Elapsed] :
                 e \in {ConnectionRefused, FailedToFetch, Aborted}}

JsonBody(value) == [kind |-> "json", value |-> value]
InvalidBody == [kind |-> "invalid"]
AbortedBody == [kind |-> "aborted"]

Response(status, body, contentDisposition) ==
  [kind |-> "response", status |-> status, statusText |-> StatusText(status),
   body |-> body, contentDisposition |-> contentDisposition,
   elapsed |-> IF body = AbortedBody THEN Timeout ELSE Elapsed]

\* A BacklogError body.
ErrorBody(message, errors) == [message |-> message, errors |-> errors]
NestedError(message) == [message |-> message, code |-> 1]

SpaceBody == JsonBody([spaceKey |-> "TEST"])
MockError == JsonBody(ErrorBody(Val("Mock error"), Absent))

\* The answers of the retry scenarios: 200, a status outside and one inside the
\* default retryable set, each with a JSON body, a body that is no JSON, and a
\* body read cut by the timeout.
RetryAnswers ==
  Rejections
    \cup {Response(200, b, Absent) : b \in {SpaceBody, InvalidBody, AbortedBody}}
    \cup {Response(st, b, Absent) : st \in {404, 503},
                                    b \in {MockError, InvalidBody, AbortedBody}}

Policy(maxAttempts, baseDelay, maxDelay, codes, exponentialBackoff) ==
  [maxAttempts |-> maxAttempts, baseDelay |-> baseDelay, maxDelay |-> maxDelay,
   retryableStatusCodes |-> codes, exponentialBackoff |-> exponentialBackoff]

FullLogger == Val([kind |-> "custom", request |-> TRUE, response |-> TRUE, error |-> TRUE])
ConsoleLogger == Val([kind |-> "console", request |-> TRUE, response |-> TRUE, error |-> TRUE])

Config(host, apiKey, accessToken, timeout, logger, retry) ==
  [host |-> host, apiKey |-> apiKey, accessToken |-> accessToken, timeout |-> timeout,
   logger |-> logger, retry |-> retry]

RequestCall(path, method, params, body) ==
  [op |-> "request", path |-> path,
   options |-> [method |-> method, params |-> params, body |-> body]]

DownloadCall(path) == [op |-> "download", path |-> path, options |-> Undefined]

GetSpace == RequestCall("space", Absent, <<>>, Absent)
GetSpaceIcon == DownloadCall("space/image")

\* The partial policies of the retry scenarios.
RetryPolicies ==
  {Policy(m, d[1], d[2], c, d[3]) :
     m \in {Absent, Undefined} \cup {Val(n) : n \in (-1)..MaxAttempts},
     c \in {Absent, Undefined, Val(<<404>>)},
     d \in {<<Absent, Absent, Absent>>,
            <<Undefined, Undefined, Undefined>>,
            <<Val(BaseDelay), Val(MaxDelay), Val(TRUE)>>,
            <<Val(BaseDelay), Absent, Val(FALSE)>>,
            <<Absent, Val(MaxDelay), Val(FALSE)>>,
            <<Absent, Val(MaxDelay), Val(TRUE)>>}}

RetryConfigs ==
  {Config("localhost:8899", Val("KEY"), Absent, t, l, p) :
     t \in {Absent, Val(Timeout)}, l \in {Undefined, FullLogger}, p \in RetryPolicies}
    \cup {Config("localhost:8899", Val("KEY"), Absent, Absent, ConsoleLogger, Undefined)}

InitWith(configs, calls) ==
  /\ config \in configs
  /\ call \in calls
  /\ pc = "idle"
  /\ url = ""
  /\ headers = Undefined
  /\ retryConfig = Undefined
  /\ requestOptions = Undefined
  /\ attempt = 0
  /\ lastError = Undefined
  /\ fetches = <<>>
  /\ sleeps = <<>>
  /\ logs = <<>>
  /\ outcome = Undefined
  /\ timers = {}
  /\ aborted = {}
  /\ focus = "a"
  /\ suspended = Undefined

NextWith(answers) ==
  \/ Request
  \/ \E r \in answers, random10 \in Randoms : FetchSettles(r, random10)
  \/ Wake
  \/ Download
  \/ \E r \in answers : DownloadSettles(r)

(***************************************************************************)
(* The retry scenarios: every partial policy against every answer sequence.*)
(***************************************************************************)
Init == InitWith(RetryConfigs, {GetSpace, GetSpaceIcon})

Next == NextWith(RetryAnswers) \/ TimerFires

Spec == Init /\ [][Next]_vars

(***************************************************************************)
(* The error-body scenarios: every shape of a BacklogError body, for       *)
(* request with at most two attempts and for download.                     *)
(***************************************************************************)
ErrorBodies ==
  {JsonBody(ErrorBody(m, e)) :
     m \in {Absent, Val(""), Val("A")},
     e \in {Absent, Val(<<>>)}
            \cup {Val(<<NestedError(n)>>) : n \in {Absent, Val(""), Val("B")}}}

ErrAnswers ==
  {[kind |-> "reject", error |-> FailedToFetch, elapsed |-> Elapsed],
   Response(200, SpaceBody, Absent)}
    \cup {Response(st, b, Absent) : st \in {400, 503}, b \in ErrorBodies \cup {InvalidBody}}

ErrConfigs ==
  {Config("localhost:8899", Val("KEY"), Absent, Absent, l,
          Policy(Val(m), Absent, Absent, c, Val(FALSE))) :
     l \in {Undefined, FullLogger}, m \in 1..2, c \in {Absent, Undefined}}

InitErr == InitWith(ErrConfigs, {GetSpace, GetSpaceIcon})

NextErr == NextWith(ErrAnswers)

SpecErr == InitErr /\ [][NextErr]_vars

(***************************************************************************)
(* The wire scenarios: what request and download put on the wire and take  *)
(* from it, for every combination of host, credentials, method, params and *)
(* body, and for every shape of the Content-Disposition header.            *)
(***************************************************************************)
Hosts == {"localhost:8899", "localhost", "xlocalhost:80", "127.0.0.1:8080",
          "example.backlog.com"}

\* apiKey and accessToken: omitted, empty, or a credential (the key holds
\* characters that a query string must escape).
ApiKeys == {Absent, Val(""), Val("K&Y=1")}
AccessTokens == {Absent, Val(""), Val("TOKEN")}

Param(key, value) == [key |-> key, value |-> value]

\* options.params, as the list of the object's own properties in property order.
ParamMappings ==
  {<<>>,
   <<Param("q", PStr("a b")), Param("n", PNull), Param("ids", PArr(<<PNum(1), PNum(2)>>)),
     Param("u", PUndefined), Param("b", PBool(TRUE)), Param("count", PNum(20))>>,
   <<Param("n", PNull), Param("e", PArr(<<>>)), Param("u", PUndefined)>>,
   <<Param("ids", PArr(<<PStr("b"), PNull, PStr("a")>>)), Param("f", PBool(FALSE)),
     Param("z", PNum(0)), Param("s", PStr(""))>>,
   <<Param("apiKey", PStr("X")), Param("q", PStr("1"))>>,
   <<Param("apiKey", PNull)>>}

Methods == {Absent, Val("GET"), Val("POST")}
Bodies == {Absent, Null, Val([name |-> "Test"])}

WireConfigs ==
  {Config(h, k, t, Absent, FullLogger,
          Policy(Val(2), Val(BaseDelay), Absent, Absent, Val(FALSE))) :
     h \in Hosts, k \in ApiKeys, t \in AccessTokens}

WireCalls ==
  {RequestCall("issues", m, p, b) : m \in Methods, p \in ParamMappings, b \in Bodies}
    \cup {DownloadCall(path) : path \in {"space/image", "issues/1/attachments/2"}}

WireAnswers ==
  {[kind |-> "reject", error |-> FailedToFetch, elapsed |-> Elapsed],
   Response(200, SpaceBody, Absent),
   Response(503, MockError, Absent)}

\* The payload of a file response.
FileBody == [kind |-> "bytes", size |-> 5]

\* Content-Disposition headers: none, empty, without a file name, the plain
\* form quoted and unquoted, the extended form, both forms together, the plain
\* form followed by another parameter, and an extended form that does not decode.
ContentDispositions ==
  {Absent, Val(""), Val("attachment"), Val("inline; name=x"),
   Val("attachment; filename=" \o Quote \o "x.png" \o Quote),
   Val("attachment; filename=x.png"),
   Val("attachment; filename*=UTF-8''x%20y.png"),
   Val("attachment; filename=" \o Quote \o "x.png" \o Quote \o "; filename*=UTF-8''x.png"),
   Val("attachment; filename=x.png; size=5"),
   Val("attachment; filename*=UTF-8''x%zz.png")}

FileAnswers ==
  {[kind |-> "reject", error |-> FailedToFetch, elapsed |-> Elapsed],
   Response(404, MockError, Absent)}
    \cup {Response(200, FileBody, cd) : cd \in ContentDispositions}

InitWire == InitWith(WireConfigs, WireCalls)

NextWire ==
  \/ Request
  \/ \E r \in WireAnswers, random10 \in Randoms : FetchSettles(r, random10)
  \/ Wake
  \/ Download
  \/ \E r \in FileAnswers : DownloadSettles(r)

SpecWire == InitWire /\ [][NextWire]_vars

(***************************************************************************)
(* The concurrent scenarios: two calls, each a request or a download, on   *)
(* the same or on different configurations, continued in any order.        *)
(***************************************************************************)
PairConfigs ==
  {Config("localhost:8899", Val("KEY"), Absent, Absent, FullLogger,
          Policy(Val(2), Val(BaseDelay), Absent, Val(<<404>>), Val(FALSE))),
   Config("localhost:8899", Val("KEY"), Absent, Val(Timeout), Undefined, Undefined)}

PairAnswers ==
  {[kind |-> "reject", error |-> FailedToFetch, elapsed |-> Elapsed],
   [kind |-> "reject", error |-> Aborted, elapsed |-> Timeout],
   Response(200, SpaceBody, Absent),
   Response(404, MockError, Absent),
   Response(503, MockError, Absent)}

\* The locals of a call that has not started.
IdleFrame(cfg, c) ==
  [config |-> cfg, call |-> c, pc |-> "idle", url |-> "", headers |-> Undefined,
   retryConfig |-> Undefined, requestOptions |-> Undefined, attempt |-> 0,
   lastError |-> Undefined, fetches |-> <<>>, sleeps |-> <<>>, logs |-> <<>>,
   outcome |-> Undefined, timers |-> {}, aborted |-> {}]

InitPair ==
  /\ config \in PairConfigs
  /\ call \in {GetSpace, GetSpaceIcon}
  /\ pc = "idle"
  /\ url = ""
  /\ headers = Undefined
  /\ retryConfig = Undefined
  /\ requestOptions = Undefined
  /\ attempt = 0
  /\ lastError = Undefined
  /\ fetches = <<>>
  /\ sleeps = <<>>
  /\ logs = <<>>
  /\ outcome = Undefined
  /\ timers = {}
  /\ aborted = {}
  /\ focus = "a"
  /\ suspended \in {IdleFrame(cfg, c) : cfg \in PairConfigs, c \in {GetSpace, GetSpaceIcon}}

NextPair == NextWith(PairAnswers) \/ TimerFires \/ Switch

SpecPair == InitPair /\ [][NextPair]_vars

(***************************************************************************)
(* Vocabulary of the properties.                                           *)
(***************************************************************************)
IsRequest == call.op = "request"
Done == pc \in {"returned", "raised"}

\* The answer the transport gave to the i-th fetch of the call.
Answer(i) == fetches[i].answer

\* A non-2xx response.
HttpError(a) == a.kind = "response" /\ ~Ok(a)

\* A non-2xx response whose status is in the effective retryable-status set.
RetryableStatus(a) ==
  /\ HttpError(a)
  /\ IsVal(retryConfig.retryableStatusCodes)
  /\ ArrayIncludes(retryConfig.retryableStatusCodes.v, a.status)

\* A 2xx response whose body decodes.
Success(a) == a.kind = "response" /\ Ok(a) /\ a.body.kind = "json"

\* C1: when the first N attempts of a request call end in non-2xx responses with
\* a status of the effective retryable set, maxAttempts > N, and attempt N+1 ends
\* in a 2xx response, the call has returned the body decoded from attempt N+1 and
\* the transport has seen exactly N+1 requests.
\* Until then the call has not given up: after N such failures it is asleep or
\* has attempt N+1 in flight.
C1_SucceedsAfterNFailures ==
  IsRequest =>
    \A n \in 1..Len(fetches) :
      /\ \A i \in 1..(n - 1) : RetryableStatus(Answer(i))
      /\ JsLess(n - 1, retryConfig.maxAttempts)
      => /\ Success(Answer(n))
            => /\ pc = "returned"
               /\ outcome = [kind |-> "value", data |-> Answer(n).body.value]
               /\ Len(fetches) = n
         /\ n > 1 => Len(sleeps) >= n - 1
         /\ RetryableStatus(Answer(n)) /\ JsLess(n, retryConfig.maxAttempts)
            => pc = "sleeping" \/ Len(fetches) > n

C1_Witness ==
  /\ IsRequest
  /\ pc = "returned"
  /\ Len(fetches) = 3
  /\ RetryableStatus(Answer(1))
  /\ RetryableStatus(Answer(2))
  /\ Success(Answer(3))

\* C2: when maxAttempts = K >= 1 and every attempt of a request call ends in a
\* non-2xx response with a status of the effective retryable set, the transport
\* never sees more than K requests and the call ends raising after exactly K.
C2_ExhaustsAfterKRequests ==
  /\ IsRequest
  /\ pc # "idle"
  /\ IsVal(retryConfig.maxAttempts)
  /\ retryConfig.maxAttempts.v >= 1
  /\ \A i \in 1..Len(fetches) : Answer(i) = Pending \/ RetryableStatus(Answer(i))
  => /\ Len(fetches) <= retryConfig.maxAttempts.v
     /\ Done => /\ pc = "raised"
                /\ outcome.kind = "error"
                /\ Len(fetches) = retryConfig.maxAttempts.v

C2_Witness ==
  /\ IsRequest
  /\ pc = "raised"
  /\ retryConfig.maxAttempts = Val(3)
  /\ Len(fetches) = 3
  /\ \A i \in 1..3 : RetryableStatus(Answer(i))

\* C3: when the first attempt of a request call ends in a non-2xx response whose
\* status is not in the effective retryable set, the call has raised after that
\* one request and has not slept, whatever maxAttempts is.
C3_NonRetryableStatusIsTerminal ==
  /\ IsRequest
  /\ Len(fetches) >= 1
  /\ HttpError(Answer(1))
  /\ ~RetryableStatus(Answer(1))
  => /\ pc = "raised"
     /\ outcome.kind = "error"
     /\ Len(fetches) = 1
     /\ sleeps = <<>>

C3_Witness ==
  /\ IsRequest
  /\ pc = "raised"
  /\ retryConfig.maxAttempts = Val(3)
  /\ retryConfig.retryableStatusCodes = DEFAULT_RETRY_CONFIG.retryableStatusCodes
  /\ Len(fetches) = 1
  /\ HttpError(Answer(1))
  /\ Answer(1).status = 404

\* C4: with an effective maxAttempts of 1 a request call issues exactly one
\* network request and never sleeps, whatever the answer to it.
C4_MaxAttemptsOneNeverRetries ==
  /\ IsRequest
  /\ pc # "idle"
  /\ retryConfig.maxAttempts = Val(1)
  => /\ Len(fetches) = 1
     /\ sleeps = <<>>
     /\ Answer(1) # Pending => Done

C4_Witness ==
  /\ IsRequest
  /\ pc = "raised"
  /\ retryConfig.maxAttempts = Val(1)
  /\ RetryableStatus(Answer(1))

\* C5: an attempt of a request call during which the timeout fires is the last
\* one: the call has raised, no further request was issued and no sleep followed.
C5_TimeoutIsTerminal ==
  IsRequest =>
    \A i \in 1..Len(fetches) :
      TimedOut(Answer(i))
        => /\ pc = "raised"
           /\ Len(fetches) = i
           /\ Len(sleeps) = i - 1

\* A connection-level failure of fetch that is not the timeout's abort.
NetworkError(a) == a.kind = "reject" /\ a.error.name = "TypeError"

\* C6: an attempt of a request call that fails with a network-transport error
\* while attempt < maxAttempts does not end the call: the call sleeps and then
\* issues another attempt.
C6_NetworkErrorIsRetried ==
  IsRequest =>
    \A i \in 1..Len(fetches) :
      NetworkError(Answer(i)) /\ JsLess(i, retryConfig.maxAttempts)
        => /\ Len(sleeps) >= i
           /\ (pc = "sleeping" /\ Len(fetches) = i) \/ Len(fetches) > i

\* C7: the URL handed to every logger callback does not hold the configured API
\* key: its apiKey query value is the placeholder.
C7_LoggedUrlIsMasked ==
  TruthyStr(config.apiKey) =>
    \A k \in 1..Len(logs) :
      /\ ~Includes(logs[k].url, config.apiKey.v)
      /\ Includes(logs[k].url, "apiKey=****")

\* The classified failure of the i-th attempt: what executeRequest threw for it.
ClassifiedFailure(i) ==
  executeRequest(url, config.logger, requestOptions.method, Answer(i)).error

\* C8: a request call that raises after several failed attempts raises the
\* classified failure of the last attempt issued.
C8_RaisesLastFailure ==
  IsRequest /\ pc = "raised" /\ Len(fetches) >= 2
    => /\ outcome.kind = "error"
       /\ outcome.error.name = ClassifiedFailure(Len(fetches)).name
       /\ outcome.error.message = ClassifiedFailure(Len(fetches)).message

\* The message the claim gives for a JSON error body: the first nested message
\* when it is a non-empty string, else the top-level message when there is one,
\* else "Unknown error".
ClaimedMessage(errorData) ==
  IF IsVal(errorData.errors) /\ Len(errorData.errors.v) >= 1
       /\ IsVal(errorData.errors.v[1].message) /\ errorData.errors.v[1].message.v # ""
    THEN errorData.errors.v[1].message.v
  ELSE IF IsVal(errorData.message) /\ errorData.message.v # ""
    THEN errorData.message.v
  ELSE "Unknown error"

\* C9: when request or download raises on a non-2xx response with a JSON error
\* body, the message of the raised error is the one resolved from that body, a
\* nested message before a top-level one.
C9_RaisedMessageIsResolved ==
  /\ pc = "raised"
  /\ HttpError(Answer(Len(fetches)))
  /\ Answer(Len(fetches)).body.kind = "json"
  => /\ outcome.kind = "error"
     /\ outcome.error.message = ClaimedMessage(Answer(Len(fetches)).body.value)

\* Whether the caller's partial policy supplies a value for field f.
Supplies(retry, f) == retry # Undefined /\ IsVal(retry[f])

\* C10: every field of the effective policy is the caller's value when the
\* caller supplies one and the default otherwise; none is undefined.
C10_FieldwiseMerge ==
  IsRequest /\ pc # "idle" =>
    \A f \in RetryFields :
      /\ retryConfig[f] = IF Supplies(config.retry, f) THEN config.retry[f]
                          ELSE DEFAULT_RETRY_CONFIG[f]
      /\ retryConfig[f] # Undefined

\* The i-th attempt is followed by another one: the call sleeps before it, or
\* has issued it.
FollowedByAnother(i) == (pc = "sleeping" /\ Len(fetches) = i) \/ Len(fetches) > i

\* C11: an attempt of a request call that ends in a non-2xx response is followed
\* by another attempt exactly when attempt < maxAttempts and the status is in the
\* effective retryable set; a set supplied by the caller is the effective set,
\* the default set playing no part.
C11_RetriedIffEligible ==
  IsRequest /\ pc # "idle" =>
    /\ \A i \in 1..Len(fetches) :
         HttpError(Answer(i))
           => (FollowedByAnother(i)
                 <=> JsLess(i, retryConfig.maxAttempts) /\ RetryableStatus(Answer(i)))
    /\ Supplies(config.retry, "retryableStatusCodes")
         => retryConfig.retryableStatusCodes = config.retry.retryableStatusCodes

\* The caller's set is <<404>>: a 404 was retried, then a 503 ended the call
\* with an attempt left.
C11_Witness ==
  /\ IsRequest
  /\ pc = "raised"
  /\ retryConfig.maxAttempts = Val(3)
  /\ retryConfig.retryableStatusCodes = Val(<<404>>)
  /\ Len(fetches) = 2
  /\ HttpError(Answer(1)) /\ Answer(1).status = 404
  /\ HttpError(Answer(2)) /\ Answer(2).status = 503

\* C12: every delay slept between two attempts of a request call is at most the
\* effective maxDelay, under exponential and under constant backoff (policies
\* whose baseDelay and maxDelay are numbers).
C12_DelayAtMostMaxDelay ==
  /\ IsRequest
  /\ pc # "idle"
  /\ IsVal(retryConfig.baseDelay)
  /\ IsVal(retryConfig.maxDelay)
  => \A k \in 1..Len(sleeps) :
       IsVal(sleeps[k]) /\ sleeps[k].v <= retryConfig.maxDelay.v

(***************************************************************************)
(* Reading a URL back, as the receiving side does (URL.searchParams).      *)
(***************************************************************************)
\* The pieces of str between the occurrences of the one-character separator.
RECURSIVE Split(_, _)
Split(str, sep) ==
  IF ~Includes(str, sep) THEN <<str>>
  ELSE LET i == Min(Occurrences(str, sep))
       IN <<SubSeq(str, 1, i - 1)>> \o Split(From(str, i + 1), sep)

\* The characters that travel percent-encoded in a query string.
Escaped == {"[", "]", "&", "=", "%", "/", ":", "?", "'"}

\* application/x-www-form-urlencoded decoding: + is a space, %XX the character
\* it escapes.
RECURSIVE FormDecode(_)
FormDecode(str) ==
  IF Len(str) = 0 THEN ""
  ELSE IF SubSeq(str, 1, 1) = "+" THEN " " \o FormDecode(From(str, 2))
  ELSE IF SubSeq(str, 1, 1) = "%" /\ Len(str) >= 3
            /\ \E c \in Escaped : FormEncodeChar(c) = SubSeq(str, 1, 3)
    THEN (CHOOSE c \in Escaped : FormEncodeChar(c) = SubSeq(str, 1, 3))
           \o FormDecode(From(str, 4))
  ELSE SubSeq(str, 1, 1) \o FormDecode(From(str, 2))

\* The query of a URL: what follows its first "?".
QueryOf(u) == IF Includes(u, "?") THEN From(u, Min(Occurrences(u, "?")) + 1) ELSE ""

\* The (name, value) pairs of a query string, in order.
ParseQuery(qs) ==
  IF qs = "" THEN <<>>
  ELSE LET parts == Split(qs, "&")
       IN [i \in 1..Len(parts) |->
             LET eq == Occurrences(parts[i], "=")
             IN IF eq = {} THEN <<FormDecode(parts[i]), "">>
                ELSE <<FormDecode(SubSeq(parts[i], 1, Min(eq) - 1)),
                       FormDecode(From(parts[i], Min(eq) + 1))>>]

PairsOf(u) == ParseQuery(QueryOf(u))
HasPair(u, name, value) == \E i \in 1..Len(PairsOf(u)) : PairsOf(u)[i] = <<name, value>>
HasName(u, name) == \E i \in 1..Len(PairsOf(u)) : PairsOf(u)[i][1] = name

\* A credential is configured: a non-empty string.
Configured(x) == IsVal(x) /\ x.v # ""

\* The params the call hands to buildUrl (download hands none).
CallerParams == IF call.op = "request" THEN call.options.params ELSE <<>>

\* The mapping that is serialised: the caller's, with the API key set in it
\* when one is configured.
SentParams ==
  IF Configured(config.apiKey)
    THEN SetProperty(CallerParams, "apiKey", PStr(config.apiKey.v))
    ELSE CallerParams

\* The pairs the claim gives for a mapping: none for null and undefined, one
\* key[] pair per element of an array in element order, one pair otherwise.
RECURSIVE ClaimedPairs(_)
ClaimedPairs(mapping) ==
  IF Len(mapping) = 0 THEN <<>>
  ELSE LET key == mapping[1].key
           value == mapping[1].value
           own == CASE value.t \in {"null", "undefined"} -> <<>>
                    [] value.t = "array" ->
                         [i \in 1..Len(value.items) |->
                            <<key \o "[]", StringOf(value.items[i])>>]
                    [] OTHER -> << <<key, StringOf(value)>> >>
       IN own \o ClaimedPairs(Tail(mapping))

\* C13: the query of the built URL reads back as exactly the pairs of the
\* mapping, in order: nothing for a null or undefined value, one key[]=item pair
\* per array element, one key=String(value) pair for any other value; and the
\* URL holds a "?" only when there is at least one pair.
C13_QueryPairs ==
  pc # "idle" =>
    /\ PairsOf(url) = ClaimedPairs(SentParams)
    /\ Includes(url, "?") <=> Len(ClaimedPairs(SentParams)) > 0
    /\ \A k \in 1..Len(fetches) : fetches[k].url = url

C13_Witness ==
  /\ IsRequest
  /\ pc = "returned"
  /\ config.apiKey = Val("K&Y=1")
  /\ Len(call.options.params) = 6
  /\ PairsOf(fetches[1].url) =
       << <<"q", "a b">>, <<"ids[]", "1">>, <<"ids[]", "2">>, <<"b", "true">>,
          <<"count", "20">>, <<"apiKey", "K&Y=1">> >>

\* C14 as stated: with an API key configured the built URL holds the pair
\* apiKey={key}, for every path and params; with only a bearer token it holds no
\* apiKey parameter, for every path and params, and the header map holds
\* Authorization: Bearer {token}.
C14_ApiKeyOrBearer ==
  pc # "idle" =>
    /\ Configured(config.apiKey) => HasPair(url, "apiKey", config.apiKey.v)
    /\ ~Configured(config.apiKey) /\ Configured(config.accessToken)
         => /\ ~HasName(url, "apiKey")
            /\ headers.Authorization = Val("Bearer " \o config.accessToken.v)

\* The caller's own params hold a value under the name apiKey.
CallerSendsApiKey ==
  \E i \in 1..Len(CallerParams) :
    /\ CallerParams[i].key = "apiKey"
    /\ CallerParams[i].value.t \notin {"null", "undefined"}

\* C14, amended: with only a bearer token the built URL holds no apiKey
\* parameter unless the caller's own params supply one.
C14_ApiKeyOrBearerUnlessSupplied ==
  pc # "idle" =>
    /\ Configured(config.apiKey)
         => /\ HasPair(url, "apiKey", config.apiKey.v)
            /\ Cardinality({i \in 1..Len(PairsOf(url)) : PairsOf(url)[i][1] = "apiKey"}) = 1
    /\ ~Configured(config.apiKey) /\ Configured(config.accessToken)
         => /\ HasName(url, "apiKey") <=> CallerSendsApiKey
            /\ headers.Authorization = Val("Bearer " \o config.accessToken.v)

\* An API key is configured and the caller's params hold an apiKey entry too.
C14_Witness ==
  /\ IsRequest
  /\ pc = "returned"
  /\ config.apiKey = Val("K&Y=1")
  /\ CallerSendsApiKey
  /\ PairsOf(fetches[1].url) = << <<"apiKey", "K&Y=1">>, <<"q", "1">> >>

\* C15: every request put on the wire by request and download carries
\* Content-Type: application/json, an Authorization header exactly when a bearer
\* token is configured, and the API key in no header; with both credentials
\* configured the URL carries the apiKey pair and the headers the Bearer token.
C15_HeadersSent ==
  \A k \in 1..Len(fetches) :
    LET h == fetches[k].headers
    IN /\ h.ContentType = "application/json"
       /\ IsVal(h.Authorization) <=> Configured(config.accessToken)
       /\ Configured(config.accessToken)
            => h.Authorization = Val("Bearer " \o config.accessToken.v)
       /\ Configured(config.apiKey)
            => /\ ~Includes(h.ContentType, config.apiKey.v)
               /\ IsVal(h.Authorization) => ~Includes(h.Authorization.v, config.apiKey.v)
       /\ Configured(config.apiKey) /\ Configured(config.accessToken)
            => HasPair(fetches[k].url, "apiKey", config.apiKey.v)

C15_Witness ==
  /\ call.op = "download"
  /\ pc = "returned"
  /\ config.apiKey = Val("K&Y=1")
  /\ config.accessToken = Val("TOKEN")
  /\ fetches[1].headers.Authorization = Val("Bearer TOKEN")
  /\ HasPair(fetches[1].url, "apiKey", "K&Y=1")

\* C16: the built URL is http://{host}/api/v2/{path} when the host begins with
\* localhost: and https://{host}/api/v2/{path} for every other host, followed
\* by the query if there is one.
C16_SchemeByHost ==
  pc # "idle" =>
    LET local == Len(config.host) >= 10 /\ SubSeq(config.host, 1, 10) = "localhost:"
        base == (IF local THEN "http" ELSE "https") \o "://" \o config.host
                  \o "/api/v2/" \o call.path
    IN /\ Len(url) >= Len(base)
       /\ SubSeq(url, 1, Len(base)) = base
       /\ url = base \/ SubSeq(url, Len(base) + 1, Len(base) + 1) = "?"

C16_Witness ==
  /\ pc = "returned"
  /\ config.host = "localhost"
  /\ config.apiKey = Absent
  /\ fetches[1].url = "https://localhost/api/v2/space/image"

\* C17: a download call issues exactly one network request and never sleeps,
\* whatever the answer and whatever config.retry holds; on a non-2xx response
\* or a transport error it has raised at once.
C17_DownloadIsSingleAttempt ==
  call.op = "download" /\ pc # "idle" =>
    /\ Len(fetches) = 1
    /\ sleeps = <<>>
    /\ Answer(1) # Pending => Done
    /\ Answer(1) # Pending /\ (Answer(1).kind = "reject" \/ HttpError(Answer(1)))
         => pc = "raised" /\ outcome.kind = "error"

\* A 503 answered a download under a policy of three attempts.
C17_Witness ==
  /\ call.op = "download"
  /\ pc = "raised"
  /\ config.retry # Undefined
  /\ config.retry.maxAttempts = Val(3)
  /\ HttpError(Answer(1))
  /\ Answer(1).status = 503
  /\ Len(fetches) = 1

\* The file name a Content-Disposition header of the wire scenarios carries:
\* the value of its filename parameter without the quotes, or the percent-decoded
\* value of its filename* parameter; none when it has neither parameter.
CarriedFileName(cd) ==
  CASE cd = Val("attachment; filename=" \o Quote \o "x.png" \o Quote) -> Val("x.png")
    [] cd = Val("attachment; filename=x.png") -> Val("x.png")
    [] cd = Val("attachment; filename*=UTF-8''x%20y.png") -> Val("x y.png")
    [] cd = Val("attachment; filename=" \o Quote \o "x.png" \o Quote
                  \o "; filename*=UTF-8''x.png") -> Val("x.png")
    [] cd = Val("attachment; filename=x.png; size=5") -> Val("x.png")
    [] cd = Val("attachment; filename*=UTF-8''x%zz.png") -> [s |-> "undecodable"]
    [] OTHER -> Undefined

\* C18: a download answered by a 2xx response returns the file name its
\* Content-Disposition header carries (plain form, quoted or not; extended form,
\* percent-decoded), and no file name exactly when the header is missing or
\* carries none.
C18_FileNameOfHeader ==
  /\ call.op = "download"
  /\ Len(fetches) = 1
  /\ Answer(1).kind = "response" /\ Ok(Answer(1))
  /\ CarriedFileName(Answer(1).contentDisposition).s # "undecodable"
  => /\ pc = "returned"
     /\ outcome.data.fileName = CarriedFileName(Answer(1).contentDisposition)

\* The method of the call: options.method, GET when none is given.
MethodOfCall == IF IsVal(call.options.method) THEN call.options.method.v ELSE "GET"

\* options.body is truthy: a body object (null and undefined are not).
BodySupplied == IsVal(call.options.body)

\* C19: every network request of a request call carries a body, the JSON text of
\* options.body, exactly when the method is not GET and options.body is truthy;
\* a GET carries none; and the pre-send log event has a body argument exactly
\* when a body is attached.
C19_BodyOnlyOnNonGet ==
  IsRequest /\ pc # "idle" =>
    /\ \A k \in 1..Len(fetches) :
         /\ fetches[k].method = MethodOfCall
         /\ IsVal(fetches[k].body) <=> (MethodOfCall # "GET" /\ BodySupplied)
         /\ IsVal(fetches[k].body)
              => fetches[k].body = Val(JSONStringify(call.options.body.v))
         /\ fetches[k].method = "GET" => ~IsVal(fetches[k].body)
    /\ logs[1].type = "request"
    /\ logs[1].payload.body # Undefined <=> (MethodOfCall # "GET" /\ BodySupplied)
    /\ logs[1].payload.body # Undefined => logs[1].payload.body = call.options.body

\* A GET call that was given a body, retried once.
C19_Witness ==
  /\ IsRequest
  /\ pc = "returned"
  /\ call.options.method = Val("GET")
  /\ BodySupplied
  /\ Len(fetches) = 2
  /\ fetches[1].body = Absent
  /\ fetches[2].body = Absent
  /\ logs[1].payload.body = Undefined

(***************************************************************************)
(* The same call run with no logger, on the same transport answers.        *)
(***************************************************************************)
\* The retry loop of request from the loop head on, with logger undefined: att
\* attempts are behind, last is lastError, rest are the answers still to come.
RECURSIVE UnloggedAttempts(_, _, _, _, _, _)
UnloggedAttempts(rc, u, method, att, last, rest) ==
  IF ~JsLess(att, rc.maxAttempts)
    THEN [end |-> "raised", requests |-> att, slept |-> att,
          result |-> [kind |-> "error",
                      error |-> IF last # Undefined THEN last
                                ELSE NewError("Error",
                                              "Request failed after all retry attempts")]]
  ELSE IF Len(rest) = 0
    THEN [end |-> "fetching", requests |-> att + 1, slept |-> att, result |-> Undefined]
  ELSE LET res == executeRequest(u, Undefined, method, Head(rest))
       IN IF res.kind = "return"
            THEN [end |-> "returned", requests |-> att + 1, slept |-> att,
                  result |-> [kind |-> "value", data |-> res.data]]
          ELSE IF ShouldRetryThrows(att + 1, res.error, rc)
            THEN [end |-> "raised", requests |-> att + 1, slept |-> att,
                  result |-> [kind |-> "error",
                              error |-> NewError("TypeError",
                                 "Cannot read properties of undefined (reading 'includes')")]]
          ELSE IF ~shouldRetry(att + 1, res.error, rc)
            THEN [end |-> "raised", requests |-> att + 1, slept |-> att,
                  result |-> [kind |-> "error", error |-> res.error]]
          ELSE UnloggedAttempts(rc, u, method, att + 1, res.error, Tail(rest))

\* The call c under configuration cfg with its logger taken away, given the
\* answers of the transport in order.
Unlogged(cfg, c, answers) ==
  IF c.op = "request"
    THEN UnloggedAttempts(MergeRetryConfig(cfg.retry),
                          buildUrl(cfg, c.path, c.options.params),
                          IF TruthyStr(c.options.method) THEN c.options.method.v ELSE "GET",
                          0, Undefined, answers)
    ELSE LET res == downloadSettle(buildUrl(cfg, c.path, <<>>), Undefined, answers[1])
         IN [end |-> IF res.kind = "return" THEN "returned" ELSE "raised",
             requests |-> 1, slept |-> 0,
             result |-> IF res.kind = "return" THEN [kind |-> "value", data |-> res.data]
                        ELSE [kind |-> "error", error |-> res.error]]

\* The answers the transport gave to the call, in order.
Answers == [i \in 1..Len(fetches) |-> fetches[i].answer]

\* C20: a call that has ended, with whatever logger, has ended as the same call
\* with no logger ends on the same answers: as many network requests, as many
\* sleeps, each of a delay the policy gives for that attempt, and the same
\* returned value or raised error.
C20_LoggerChangesNothing ==
  Done =>
    LET run == Unlogged(config, call, Answers)
    IN /\ pc = run.end
       /\ Len(fetches) = run.requests
       /\ Len(sleeps) = run.slept
       /\ outcome = run.result
       /\ \A k \in 1..Len(sleeps) :
            \E random10 \in Randoms :
              sleeps[k] = calculateRetryDelay(k, MergeRetryConfig(config.retry), random10)

\* A logged call that was retried and then raised.
C20_Witness ==
  /\ IsRequest
  /\ pc = "raised"
  /\ config.logger = FullLogger
  /\ Len(fetches) = 3
  /\ Len(sleeps) = 2
  /\ Len(logs) >= 4
  /\ outcome.error.message = "Mock error"

\* C22: the delay slept after failed attempt k is exactly baseDelay under
\* constant backoff; under exponential backoff it is
\* min(baseDelay * 2^(k-1) + jitter, maxDelay) with 0 <= jitter < a tenth of
\* baseDelay * 2^(k-1), so never below min(baseDelay * 2^(k-1), maxDelay).
C22_DelayFormula ==
  IsRequest /\ pc # "idle" =>
    \A k \in 1..Len(sleeps) :
      /\ retryConfig.exponentialBackoff = Val(FALSE) => sleeps[k] = retryConfig.baseDelay
      /\ /\ retryConfig.exponentialBackoff = Val(TRUE)
         /\ IsVal(retryConfig.baseDelay)
         /\ IsVal(retryConfig.maxDelay)
         => LET grown == retryConfig.baseDelay.v * 2^(k - 1)
                cap == retryConfig.maxDelay.v
            IN /\ IsVal(sleeps[k])
               /\ sleeps[k].v >= (IF grown <= cap THEN grown ELSE cap)
               /\ sleeps[k].v <= cap
               /\ \/ sleeps[k].v = cap /\ 10 * (cap - grown) < grown
                  \/ /\ sleeps[k].v >= grown
                     /\ 10 * (sleeps[k].v - grown) < grown

\* The default policy: 1000 ms with a jitter of 9 %, then 2000 ms with none.
C22_Witness ==
  /\ IsRequest
  /\ pc = "raised"
  /\ retryConfig = DEFAULT_RETRY_CONFIG
  /\ sleeps = <<Val(1090), Val(2000)>>

\* C23 as stated: under exponential backoff with baseDelay > 0 every delay of a
\* call is strictly greater than the one slept before it, whatever maxDelay and
\* the jitter.
C23_StrictlyIncreasing ==
  /\ IsRequest
  /\ pc # "idle"
  /\ retryConfig.exponentialBackoff = Val(TRUE)
  /\ IsVal(retryConfig.baseDelay)
  /\ retryConfig.baseDelay.v > 0
  /\ IsVal(retryConfig.maxDelay)
  => \A k \in 1..(Len(sleeps) - 1) : sleeps[k + 1].v > sleeps[k].v

\* C23, amended: the delays never decrease, and a delay below maxDelay is
\* followed by a strictly greater one.
C23_IncreasingUpToMaxDelay ==
  /\ IsRequest
  /\ pc # "idle"
  /\ retryConfig.exponentialBackoff = Val(TRUE)
  /\ IsVal(retryConfig.baseDelay)
  /\ retryConfig.baseDelay.v > 0
  /\ IsVal(retryConfig.maxDelay)
  => \A k \in 1..(Len(sleeps) - 1) :
       /\ sleeps[k + 1].v >= sleeps[k].v
       /\ sleeps[k].v < retryConfig.maxDelay.v => sleeps[k + 1].v > sleeps[k].v

\* Both delays of the call are the cap.
C23_Witness ==
  /\ IsRequest
  /\ pc = "raised"
  /\ retryConfig.exponentialBackoff = Val(TRUE)
  /\ retryConfig.maxDelay = Val(MaxDelay)
  /\ sleeps = <<Val(MaxDelay), Val(MaxDelay)>>

\* The logger has the three callbacks.
FullyLogged == IsVal(config.logger)
                 /\ config.logger.v.request /\ config.logger.v.response /\ config.logger.v.error

\* The types of the events the logger has observed, in order.
EventTypes == [k \in 1..Len(logs) |-> logs[k].type]

\* C24: a request call with a logger whose first attempt ends in a non-2xx
\* response that is not retried has given the logger exactly three events: the
\* request, an error carrying the decoded error payload, an error carrying the
\* raised error; and no response event.
C24_ThreeEventsOnTerminalHttpError ==
  /\ IsRequest
  /\ FullyLogged
  /\ pc = "raised"
  /\ Len(fetches) = 1
  /\ HttpError(Answer(1))
  => /\ EventTypes = <<"request", "error", "error">>
     /\ logs[2].payload = [k |-> "errorData", data |-> ErrorDataOf(Answer(1))]
     /\ logs[3].payload = [k |-> "error", error |-> outcome.error]

\* A response whose body is not valid JSON.
Unparsable(a) == a.kind = "response" /\ a.body.kind = "invalid"

\* C26: a 2xx response whose body is not valid JSON ends the request call with
\* a raised error right after that attempt, attempts left or not: no further
\* request, no sleep, no value returned; a non-2xx response whose body is not
\* valid JSON gives the attempt's failure the message
\* "HTTP {status}: {statusText}".
C26_UnparsableBody ==
  IsRequest =>
    \A i \in 1..Len(fetches) :
      /\ Unparsable(Answer(i)) /\ Ok(Answer(i))
           => /\ pc = "raised"
              /\ outcome.kind = "error"
              /\ outcome.error.name = "SyntaxError"
              /\ Len(fetches) = i
              /\ Len(sleeps) = i - 1
      /\ Unparsable(Answer(i)) /\ ~Ok(Answer(i)) /\ Len(fetches) = i
           => lastError.message = "HTTP " \o ToString(Answer(i).status) \o ": "
                                    \o Answer(i).statusText

\* A 200 with an unreadable body on the second of three attempts.
C26_Witness ==
  /\ IsRequest
  /\ pc = "raised"
  /\ retryConfig.maxAttempts = Val(3)
  /\ Len(fetches) = 2
  /\ Unparsable(Answer(1)) /\ Answer(1).status = 503
  /\ Unparsable(Answer(2)) /\ Answer(2).status = 200

\* C27: the error a request call raises exposes the message only: neither the
\* HTTP status nor the elapsed duration attached during retry classification is
\* on the error object the caller receives.
C27_RaisedErrorHidesStatus ==
  IsRequest /\ pc = "raised"
    => /\ outcome.error.status = Undefined
       /\ outcome.error.duration = Undefined

\* C28: a request call with a full logger whose first N attempts end in
\* retryable non-2xx responses and whose attempt N+1 ends in 2xx has given the
\* logger exactly 2 + 2N events: one request event first, then for each failed
\* attempt an error event carrying the decoded error payload followed by an
\* error event carrying the retry notice, and one response event last.
C28_EventsOnEventualSuccess ==
  /\ IsRequest
  /\ FullyLogged
  /\ pc = "returned"
  /\ \A i \in 1..(Len(fetches) - 1) : RetryableStatus(Answer(i))
  => LET N == Len(fetches) - 1
     IN /\ Len(logs) = 2 + 2 * N
        /\ logs[1].type = "request"
        /\ \A i \in 1..N :
             /\ logs[2 * i].type = "error"
             /\ logs[2 * i].payload = [k |-> "errorData", data |-> ErrorDataOf(Answer(i))]
             /\ logs[2 * i + 1].type = "error"
             /\ logs[2 * i + 1].payload.k = "notice"
             /\ StartsWith(logs[2 * i + 1].payload.text,
                           "Attempt " \o ToString(i) \o "/"
                             \o ToString(retryConfig.maxAttempts.v) \o " failed, retrying in ")
        /\ logs[2 + 2 * N].type = "response"
        /\ logs[2 + 2 * N].payload.data = outcome.data

\* Two retried 503 answers, then a 200.
C28_Witness ==
  /\ IsRequest
  /\ FullyLogged
  /\ pc = "returned"
  /\ Len(fetches) = 3
  /\ RetryableStatus(Answer(1))
  /\ RetryableStatus(Answer(2))
  /\ EventTypes = <<"request", "error", "error", "error", "error", "response">>

\* C29 as stated: in every terminal state of a request call the number of
\* sleeps is the number of network requests minus one.
C29_SleepsAreRequestsMinusOne ==
  IsRequest /\ Done => Len(sleeps) = Len(fetches) - 1

\* C29, amended: every sleep is followed by another attempt and none follows
\* the last one: a call that has ended after at least one network request has
\* slept one time fewer than it has fetched, and a call that ended without any
\* request has not slept.
C29_NoTrailingSleep ==
  IsRequest /\ pc # "idle" =>
    /\ pc = "sleeping"
         => Len(sleeps) = Len(fetches) /\ JsLess(attempt, retryConfig.maxAttempts)
    /\ pc = "fetching" => Len(sleeps) = Len(fetches) - 1
    /\ Done /\ Len(fetches) >= 1 => Len(sleeps) = Len(fetches) - 1
    /\ Done /\ Len(fetches) = 0 => Len(sleeps) = 0

\* maxAttempts is exhausted by three retryable failures.
C29_Witness ==
  /\ IsRequest
  /\ pc = "raised"
  /\ retryConfig.maxAttempts = Val(3)
  /\ Len(fetches) = 3
  /\ Len(sleeps) = 2
  /\ NetworkError(Answer(3))

\* C30: with an effective maxAttempts below 1 a request call issues no network
\* request and raises the generic error; a logger has observed the request
\* event and no other.
C30_NoAttemptBelowOne ==
  /\ IsRequest
  /\ pc # "idle"
  /\ IsVal(retryConfig.maxAttempts)
  /\ retryConfig.maxAttempts.v < 1
  => /\ pc = "raised"
     /\ fetches = <<>>
     /\ sleeps = <<>>
     /\ outcome = [kind |-> "error",
                   error |-> NewError("Error", "Request failed after all retry attempts")]
     /\ FullyLogged => EventTypes = <<"request">>
     /\ ~IsVal(config.logger) => logs = <<>>

C30_Witness ==
  /\ IsRequest
  /\ pc = "raised"
  /\ retryConfig.maxAttempts = Val(-1)
  /\ FullyLogged
  /\ Len(logs) = 1
  /\ outcome.error.message = "Request failed after all retry attempts"

\* C25: the timeout is scoped to one attempt.  Every attempt of a request call
\* fetches with the signal of a controller of its own when config.timeout is set
\* (and with none otherwise), and only the running out of its own timer ends it
\* by abort; the only timer ever set is that of the attempt being fetched, so
\* none is set during a sleep or after the call has ended, and none fires but
\* during its own attempt; a call whose every attempt is answered within the
\* timeout has had no abort and does not end in one.
C25_TimeoutPerAttempt ==
  IsRequest /\ pc # "idle" =>
    /\ \A i \in 1..Len(fetches) :
         /\ fetches[i].signal = (IF TruthyNum(config.timeout) THEN Val(i) ELSE Absent)
         /\ TimedOut(Answer(i)) => i \in aborted
    /\ pc = "fetching" => /\ timers \subseteq {attempt}
                          /\ TruthyNum(config.timeout) => attempt \in timers \cup aborted
    /\ pc # "fetching" => timers = {}
    /\ \A k \in aborted : \/ k <= Len(fetches) /\ TimedOut(Answer(k))
                          \/ k = Len(fetches) /\ pc = "fetching"
    /\ /\ Done
       /\ TruthyNum(config.timeout)
       /\ \A i \in 1..Len(fetches) : Answer(i).elapsed < config.timeout.v
       => /\ aborted = {}
          /\ outcome.kind = "error" => outcome.error.name # "AbortError"

\* Three attempts, each answered within the timeout, the sleeps between them
\* longer than the timeout.
C25_Witness ==
  /\ IsRequest
  /\ pc = "returned"
  /\ config.timeout = Val(Timeout)
  /\ Len(fetches) = 3
  /\ \A i \in 1..3 : Answer(i).elapsed < Timeout
  /\ sleeps[1].v + sleeps[2].v > Timeout
  /\ aborted = {}
  /\ timers = {}

\* The configuration and the arguments of call id, wherever the focus is.
ConfigOf(id) == IF focus = id THEN config ELSE suspended.config
CallOf(id) == IF focus = id THEN call ELSE suspended.call

\* The error of the last attempt of the call with locals f that failed, as
\* executeRequest throws it; Undefined when none has failed.
LastFailure(f) ==
  LET thrown(i) == executeRequest(f.url, f.config.logger, f.requestOptions.method,
                                  f.fetches[i].answer)
      failed == {i \in 1..Len(f.fetches) :
                   f.fetches[i].answer # Pending /\ thrown(i).kind = "throw"}
  IN IF failed = {} THEN Undefined
     ELSE thrown(CHOOSE i \in failed : \A j \in failed : j <= i).error

\* What the call with locals f has done is what its own configuration,
\* arguments and answers give.
OwnInputsOnly(f) ==
  /\ f.pc \in {"returned", "raised"}
       => LET run == Unlogged(f.config, f.call,
                              [i \in 1..Len(f.fetches) |-> f.fetches[i].answer])
          IN /\ f.pc = run.end
             /\ Len(f.fetches) = run.requests
             /\ Len(f.sleeps) = run.slept
             /\ f.outcome = run.result
  /\ f.call.op = "request" /\ f.pc # "idle"
       => /\ f.retryConfig = MergeRetryConfig(f.config.retry)
          /\ f.attempt = Len(f.fetches)
          /\ f.lastError = LastFailure(f)

\* C21: two calls in flight at once, continued in any order, are independent:
\* the attempt counter, effective policy, captured last error, number of
\* requests and outcome of each are those its own configuration and answers
\* give, and no step of either changes the configuration or the arguments of a
\* call.
C21_CallsAreIndependent ==
  /\ [](suspended # Undefined => OwnInputsOnly(Frame) /\ OwnInputsOnly(suspended))
  /\ [][suspended # Undefined
          => \A id \in {"a", "b"} : ConfigOf(id)' = ConfigOf(id) /\ CallOf(id)' = CallOf(id)]_vars

\* Two retried request calls on different configurations have ended, one by
\* returning and one by raising.
C21_Witness ==
  /\ suspended # Undefined
  /\ IsRequest /\ suspended.call.op = "request"
  /\ config # suspended.config
  /\ pc = "returned" /\ suspended.pc = "raised"
  /\ Len(fetches) >= 2 /\ Len(suspended.fetches) >= 2
  /\ Len(logs) + Len(suspended.logs) > 0

====
